---- MODULE Spec2Model ----
(***************************************************************************)
(* Heat-pump scheduler: stratified tank (scheduler/hotwatertank.py), heat  *)
(* pump (scheduler/heatpump.py), schedule evaluator                        *)
(* (scheduler/simulator.py) and the greedy search loop of                  *)
(* Scheduler.run_model (scheduler/__init__.py).                            *)
(*                                                                         *)
(* Quantities are integers: temperatures in degrees C, masses in kg,       *)
(* energies in Wh (the source uses kWh floats), hours numbered 1..Horizon  *)
(* (the source's hourly timestamps).  A float quotient a / b is a \div b,  *)
(* so results are rounded down to the unit.  False and a returned None     *)
(* are 0; the attribute value None is the empty sequence.                  *)
(***************************************************************************)
EXTENDS Integers, Sequences, FiniteSets, TLC

\* ------------------------------------------------------------- bounds
\* number of hourly rows of the forecast / surplus / demand series
Horizon == 2
\* sub-steps per hour (constructor argument of Simulator)
tank_timestep_multiple == 2
\* number of tank nodes (constructor argument of Tank, at least 3)
nodes == 3
\* calls of draw_load / inject_heat followed between two process_timestep calls
MaxCalls == 3

Hours == 1..Horizon
Nodes == 0..(nodes - 1)

\* temperatures the linear solve of process_timestep may produce
TempSet == {30, 60}
\* the solutions followed: stratified profiles, the heater draw node no hotter
\* than the nodes above it
SolveOutcomes ==
    {[n \in Nodes |-> IF n = 0 THEN t[1] ELSE t[2]] :
        t \in {u \in TempSet \X TempSet : u[1] <= u[2]}}
\* start_node_temps of the scheduler's tank
StartTempSet == {[n \in Nodes |-> IF n = 0 THEN 30 ELSE 60]}
\* predicted surplus per hour (Wh)
SurplusSet == {-500, 4000}
\* predicted demand per hour (Wh): none, or enough to circulate the whole tank
\* in one sub-step when the outflow node is cold
DemandSet == {0, 36000}
\* forecast ambient temperature (defrost mode at or below 2 degrees)
ForecastTempSet == {8}

\* ------------------------------------------------- fluid and tank constants
\* fluid_specific_heat = 0.0011444 kWh/kgK = 11444 / 10000 Wh/kgK
fluid_specific_heat_num == 11444
fluid_specific_heat_den == 10000
fluid_density == 998
load_supply_temp == 50
load_return_temp == 20
\* default tank volume, in litres (0.55 m3)
volume == 550
outflow_node == nodes - 1
heater_draw_node == 0
_mass == (volume * fluid_density) \div 1000
_node_mass == _mass \div nodes
\* IEEE +inf, the value of x / 0.0 for numpy floats: larger than any mass
float_inf == 2 ^ 30

ZeroQueue == [n \in Nodes |-> 0]

\* Tank.__init__: the instance attributes the model follows
Tank(start_node_temps) ==
    [ node_temps    |-> start_node_temps,
      input_masses  |-> ZeroQueue,
      input_temps   |-> ZeroQueue,
      output_masses |-> ZeroQueue,
      timestep      |-> <<1, 1>>,
      T_amb         |-> 20 ]

get_hp_draw_temp(tank) == tank.node_temps[heater_draw_node]

get_outflow_temp(tank) == tank.node_temps[outflow_node]

\* mass-weighted mean of two fluids
_mix_temps(T1, m1, T2, m2) ==
    IF m1 + m2 = 0 THEN 0 ELSE (T1 * m1 + T2 * m2) \div (m1 + m2)

\* the node the manifold injects into first: the for loop has no break, so its
\* else clause always runs and overwrites whatever the loop body chose
_reinject_target(tank, T_in) ==
    IF T_in >= tank.node_temps[nodes - 1] THEN nodes - 1 ELSE 0

\* a manifold that puts the whole mass into the node it is at
_reinject_loop_no_cap(tank, T_in, target_node, injecting_node, remaining_mass) ==
    [tank |-> [tank EXCEPT
                 !.input_temps[injecting_node] =
                     _mix_temps(@, tank.input_masses[injecting_node],
                                T_in, remaining_mass),
                 !.input_masses[injecting_node] = @ + remaining_mass],
     exc |-> "none"]

RECURSIVE _reinject_loop(_, _, _, _, _)
_reinject_loop(tank, T_in, target_node, injecting_node, remaining_mass) ==
    IF remaining_mass <= 0
    THEN [tank |-> tank, exc |-> "none"]
    ELSE
      LET queued == tank.input_masses[injecting_node]
          mass_for_this_node ==
              IF remaining_mass + queued > _node_mass
              THEN _node_mass - queued
              ELSE remaining_mass
          left == remaining_mass - mass_for_this_node
          mixed == _mix_temps(tank.input_temps[injecting_node], queued,
                              T_in, mass_for_this_node)
          t2 == [tank EXCEPT !.input_temps[injecting_node] = mixed,
                             !.input_masses[injecting_node] =
                                 queued + mass_for_this_node]
      IN  IF left > 0
          THEN IF injecting_node > 0 /\ injecting_node <= target_node
               THEN _reinject_loop(t2, T_in, target_node, injecting_node - 1, left)
               ELSE IF injecting_node = 0 /\ target_node < nodes - 1
               THEN _reinject_loop(t2, T_in, target_node, target_node + 1, left)
               ELSE IF injecting_node > target_node /\ injecting_node < nodes - 1
               THEN _reinject_loop(t2, T_in, target_node, injecting_node + 1, left)
               ELSE [tank |-> t2, exc |-> "TankWarning"]
          ELSE [tank |-> t2, exc |-> "none"]

\* Tank._reinject: the tank after the call and the exception it raised
_reinject(tank, T_in, mass) ==
    _reinject_loop(tank, T_in, _reinject_target(tank, T_in),
                   _reinject_target(tank, T_in), mass)

\* line 205: the differential to the heater draw node is too small to heat
differential_at_most_5(tank, T_in) == T_in - get_hp_draw_temp(tank) <= 5
differential_below_5(tank, T_in) == T_in - get_hp_draw_temp(tank) < 5

\* Tank.inject_heat: tank after, exception, returned energy Q_in
inject_heat(tank, mass_in, T_in) ==
    IF differential_below_5(tank, T_in)
    THEN [tank |-> tank, exc |-> "none", ret |-> 0]
    ELSE
      LET delta_T == T_in - get_hp_draw_temp(tank)
          Q_in == (mass_in * fluid_specific_heat_num * delta_T)
                      \div fluid_specific_heat_den
          drawn == [tank EXCEPT !.output_masses[heater_draw_node] = @ + mass_in]
          r == _reinject(drawn, T_in, mass_in)
      IN  [tank |-> r.tank, exc |-> r.exc,
           ret |-> IF r.exc = "none" THEN Q_in ELSE 0]

\* the mass draw_load takes from the outflow node for Q_out
mass_from_tank(tank, Q_out) ==
    LET delta_T == load_supply_temp - load_return_temp
        tank_delta == get_outflow_temp(tank) - load_return_temp
    IN  IF tank_delta = 0
        THEN float_inf
        ELSE IF get_outflow_temp(tank) > load_supply_temp
        THEN LET mass_in_network ==
                     (Q_out * fluid_specific_heat_den)
                         \div (delta_T * fluid_specific_heat_num)
             IN  (mass_in_network * delta_T) \div tank_delta
        ELSE IF tank_delta < 0
        THEN 0 - ((Q_out * fluid_specific_heat_den)
                      \div ((0 - tank_delta) * fluid_specific_heat_num))
        ELSE (Q_out * fluid_specific_heat_den)
                 \div (tank_delta * fluid_specific_heat_num)

\* Tank.draw_load: tank after, exception, returned mass (0 for None)
draw_load(tank, Q_out) ==
    IF Q_out = 0
    THEN [tank |-> tank, exc |-> "none", ret |-> 0]
    ELSE
      LET m == mass_from_tank(tank, Q_out)
          r == _reinject(tank, load_return_temp, m)
      IN  IF r.exc # "none"
          THEN [tank |-> r.tank, exc |-> r.exc, ret |-> 0]
          ELSE [tank |-> [r.tank EXCEPT !.output_masses[outflow_node] = @ + m],
                exc |-> "none", ret |-> m]

\* flow accumulated from the bottom node to above node n
RECURSIVE mass_upflow_out(_, _)
mass_upflow_out(tank, n) ==
    IF n < 0 THEN 0
    ELSE mass_upflow_out(tank, n - 1)
           + tank.input_masses[n] - tank.output_masses[n]

\* the sanity check of process_timestep (tolerance 0.0001 kg: below one unit)
mass_imbalance(tank) == mass_upflow_out(tank, nodes - 1) > 0

\* lines 360-363: write the new node temperatures and reset the queues
reset_inputs_only(tank, T) ==
    [tank EXCEPT !.input_masses = ZeroQueue,
                 !.input_temps = ZeroQueue,
                 !.node_temps = T]
reset_queues(tank, T) ==
    [tank EXCEPT !.input_masses = ZeroQueue,
                 !.input_temps = ZeroQueue,
                 !.output_masses = ZeroQueue,
                 !.node_temps = T]

\* Tank.process_timestep; T stands for the solution of A T = C
process_timestep_solves_before_check(tank, T) ==
    IF mass_imbalance(tank)
    THEN [tank |-> [tank EXCEPT !.node_temps = T], exc |-> "TankError"]
    ELSE [tank |-> reset_queues(tank, T), exc |-> "none"]
process_timestep(tank, T) ==
    IF mass_imbalance(tank)
    THEN [tank |-> tank, exc |-> "TankError"]
    ELSE [tank |-> reset_queues(tank, T), exc |-> "none"]

\* ---------------------------------------------------------- heat pump
T_out == 60
\* rated thermal power, Wh per hour (14 kW)
nominal_power == 14000
\* kg per minute
max_flow_rate == 40
defrost_threshold == 2
\* tolerance of the capacity clamp (0.01 kWh)
clamp_tolerance == 10

HeatPump == [ timestep |-> <<1, 1>>, T_amb |-> 8 ]

\* x * timestep for a timestep held as <<numerator, denominator>>
TimesStep(x, timestep) == (x * timestep[1]) \div timestep[2]

\* HeatPump._COP_coefficients, in millionths
_COP_coefficients(hp) ==
    IF hp.T_amb <= defrost_threshold
    THEN <<3254510, 55426, 7182, -1550, -509, -519>>
    ELSE <<5526029, 125194, -714, -54584, -32, -1401>>

\* the COP regression of deliver_heat, in thousandths
COP(hp) ==
    LET c == _COP_coefficients(hp)
    IN  ( c[1] + c[2] * hp.T_amb + c[3] * hp.T_amb * hp.T_amb
          + c[4] * T_out + c[5] * T_out * T_out
          + c[6] * hp.T_amb * T_out ) \div 1000

\* a heat pump that charges for the whole required heat
deliver_heat_unclamped(hp, T_in, mass) ==
    ((((T_out - T_in) * mass * fluid_specific_heat_num)
          \div fluid_specific_heat_den) * 1000) \div COP(hp)

\* HeatPump.deliver_heat: electricity used (Wh)
deliver_heat(hp, T_in, mass) ==
    LET heat_required == ((T_out - T_in) * mass * fluid_specific_heat_num)
                             \div fluid_specific_heat_den
        max_heat_deliverable == TimesStep(nominal_power, hp.timestep)
        clamped == IF heat_required - max_heat_deliverable > clamp_tolerance
                   THEN max_heat_deliverable
                   ELSE heat_required
    IN  (clamped * 1000) \div COP(hp)

\* a heat pump that forgets the flow cap
heatable_mass_uncapped(hp, T_in) ==
    (TimesStep(nominal_power, hp.timestep) * fluid_specific_heat_den)
        \div (fluid_specific_heat_num * (T_out - T_in))

\* HeatPump.heatable_mass
heatable_mass(hp, T_in) ==
    LET delta_T == T_out - T_in
        max_mass == TimesStep(max_flow_rate * 60, hp.timestep)
        mass == IF delta_T = 0
                THEN float_inf
                ELSE (TimesStep(nominal_power, hp.timestep) * fluid_specific_heat_den)
                         \div (fluid_specific_heat_num * delta_T)
    IN  IF mass > max_mass THEN max_mass ELSE mass


\* ------------------------------------------------------------ evaluator
\* Simulator.__init__ default comfort minimum
minimum_temperature == 38

\* the names bound in simulator.py by its import statements
simulator_globals == {"hotwatertank", "pd", "np", "copy"}
\* the name the first except clause of run_simulation looks up
except_clause_name == "HotWaterTank"

\* copy.deepcopy: the reference of the fresh object that holds the copy
deepcopy_alias(ref) == ref
deepcopy(ref) == IF ref = "tank" THEN "tank_copy" ELSE "heatpump_copy"

\* what the try statement of run_simulation does with an exception raised in
\* its body: "return" (first handler), or the exception that leaves the call
except_handler(exc) ==
    IF except_clause_name \notin simulator_globals
    THEN "NameError"
    ELSE IF exc = "TankWarning" THEN "return" ELSE exc

\* lines 137-143: electricity imported in an hour that used elec with surplus s
imported_this_timestep_no_else(s, elec) ==
    IF s > 0 /\ s < elec THEN elec - s ELSE 0
imported_this_timestep(s, elec) ==
    IF s > 0
    THEN IF s < elec THEN elec - s ELSE 0
    ELSE elec

\* line 167: the comfort check at the end of an hour
comfort_breached_at_draw_node(tank) == get_hp_draw_temp(tank) < minimum_temperature
comfort_breached_never(tank) == FALSE
comfort_breached(tank) == get_outflow_temp(tank) < minimum_temperature

\* line 97: 'if schedule[index]'
heating_whatever_the_schedule(active) == TRUE
heating(active) == active # 0

\* one sub-step of run_simulation (lines 92-122) on the private tank:
\* tank after, exception raised, electricity charged
substep_body(tank, hp, Q_out, active, T) ==
    LET d == draw_load(tank, Q_out)
    IN  IF d.exc # "none"
        THEN [tank |-> d.tank, exc |-> d.exc, elec_in |-> 0]
        ELSE IF ~heating(active)
        THEN LET p == process_timestep(d.tank, T)
             IN  [tank |-> p.tank, exc |-> p.exc, elec_in |-> 0]
        ELSE
          LET mass_to_heat == heatable_mass(hp, get_hp_draw_temp(d.tank))
              i == inject_heat(d.tank, mass_to_heat, T_out)
              elec_in == IF i.ret # 0
                         THEN deliver_heat(hp, get_hp_draw_temp(i.tank), mass_to_heat)
                         ELSE 0
              p == process_timestep(i.tank, T)
          IN  IF i.exc # "none"
              THEN [tank |-> i.tank, exc |-> i.exc, elec_in |-> 0]
              ELSE [tank |-> p.tank, exc |-> p.exc, elec_in |-> elec_in]

\* the tank one sub-step hands to process_timestep: the coefficients of the
\* linear system are computed from it
before_solve(tank, hp, Q_out, active) ==
    LET d == draw_load(tank, Q_out)
    IN  IF ~heating(active)
        THEN d.tank
        ELSE inject_heat(d.tank, heatable_mass(hp, get_hp_draw_temp(d.tank)),
                         T_out).tank

\* ------------------------------------------------------------ scheduler
\* Series.truncate(after=...): the rows up to and including the label
truncate(after) == {h \in Hours : h <= after}

\* _add_hour lines 353-366: candidate hours that are not on yet
remaining_hours_unfiltered(sched, surp, failure) == truncate(failure)
remaining_hours(sched, surp, failure) ==
    {h \in truncate(failure) : sched[h] # 1}

\* the rows sort_values(ascending=False) may put first: any of greatest surplus
first_of_sorted(hours, surp) ==
    {h \in hours : \A g \in hours : surp[g] <= surp[h]}

\* Scheduler._add_hour: the schedules it may leave with the value it returns
\* (0 for False)
_add_hour_clears_failure_hour(sched, surp, failure) ==
    IF remaining_hours(sched, surp, failure) = {}
    THEN {[schedule |-> [sched EXCEPT ![failure] = 0], ret |-> 0]}
    ELSE {[schedule |-> [sched EXCEPT ![to_add] = 1], ret |-> to_add] :
            to_add \in first_of_sorted(remaining_hours(sched, surp, failure),
                                       surp)}
_add_hour(sched, surp, failure) ==
    IF remaining_hours(sched, surp, failure) = {}
    THEN {[schedule |-> sched, ret |-> 0]}
    ELSE {[schedule |-> [sched EXCEPT ![to_add] = 1], ret |-> to_add] :
            to_add \in first_of_sorted(remaining_hours(sched, surp, failure),
                                       surp)}

\* Scheduler._forecast before the first forecast was retrieved
None == << >>

\* bool(obj) as 'if not self._forecast' evaluates it: None is false, and the
\* truth value of a DataFrame raises ValueError
truth_none_is_true(obj) ==
    IF obj = None THEN "True" ELSE "ValueError"
truth(obj) ==
    IF obj = None THEN "False" ELSE "ValueError"

\* self._forecast.drop(self._forecast.index[0]): None has no attribute drop
drop_first(obj) == IF obj = None THEN "AttributeError" ELSE Tail(obj)

\* run_model lines 206-215 and what follows: how the cycle goes on when
\* get_forecast raised.  The local name forecast was never bound, so the
\* call of line 253 raises UnboundLocalError once the handler is passed.
forecast_unavailable(held) ==
    IF truth(held) = "ValueError" THEN "ValueError"
    ELSE IF truth(held) = "False" THEN "SchedulerError"
    ELSE IF drop_first(held) = "AttributeError" THEN "AttributeError"
    ELSE "UnboundLocalError"

\* lines 73-74: the totals of a trial start at zero, whatever the totals of
\* the trial before were
carried_total(previous) == previous
fresh_total(previous) == 0

\* line 334: the entry handed to _signal_heatpump
first_entry_of_last_simulated(sched, simulated) == simulated[1]
first_entry(sched, simulated) == sched[1]

VARIABLES
    tanks,               \* tank objects by reference
    heatpumps,           \* heat pump objects by reference
    sim_tank,            \* Simulator.tank ("none" before the first trial)
    sim_heatpump,        \* Simulator.heatpump
    forecast,            \* run_model's local forecast: temperature per hour
    _forecast,           \* Scheduler._forecast (None or the forecast held)
    baseline_scenario,   \* Scheduler.baseline_scenario as a schedule over the
                         \* horizon (None when the option is not given)
    call_site,           \* the line of run_model the running trial was
                         \* called from (253 or 305)
    demand,              \* Scheduler._demand
    surplus,             \* Scheduler._surplus
    schedule,            \* Scheduler._schedule
    pc,                  \* position in run_model / run_simulation
    index,               \* run_simulation: the hour of the for loop
    substep,             \* run_simulation: sub-steps done in this hour
    total_elec_in,
    total_elec_imported,
    elec_this_timestep,
    elec_used,           \* run_model: results of the last run_simulation
    elec_imported,
    failure_time,
    added_another_hour,  \* run_model: what _add_hour returned
    exception,           \* the exception that left run_model
    warned,              \* the comfort warning of line 278 was emitted
    signal,              \* what _signal_heatpump was called with
    raised,              \* history: exception raised by the last call / try block
    evaluated,           \* history: the schedule the last trial ran with
    hour_ends,           \* history: per completed hour, outflow below minimum
    hour_elec,           \* history: per completed hour, electricity charged
    iterations,          \* history: passes of the while loop in this cycle
    calls,               \* tank calls since the last process_timestep
    last_call,           \* history: the tank method called last
    flow_before,         \* history: queued input minus output before that call
    manifold,            \* history: the last direct _reinject call
    last_args,           \* history: arguments, result and tank before the last
                         \* draw_load / inject_heat call
    hp_call,             \* history: the last direct heat pump call
    trial_results,       \* history: the outcome of the first trial run with
                         \* each schedule and tank snapshot
    solved               \* the solutions np.linalg.solve has returned, by the
                         \* tank they were computed from: equal systems have
                         \* equal solutions

vars == << tanks, heatpumps, sim_tank, sim_heatpump, forecast, _forecast,
           baseline_scenario, call_site, demand, surplus,
           schedule, pc, index, substep, total_elec_in, total_elec_imported,
           elec_this_timestep, elec_used, elec_imported, failure_time,
           added_another_hour, exception, warned, signal, raised, evaluated,
           hour_ends, hour_elec, iterations, calls, last_call, flow_before,
           manifold, last_args, hp_call, trial_results, solved >>

sim_locals == << index, substep, total_elec_in, total_elec_imported,
                 elec_this_timestep, call_site >>
results == << elec_used, elec_imported, failure_time, trial_results >>
series == << forecast, _forecast, baseline_scenario, demand, surplus >>
trial_history == << evaluated, hour_ends, hour_elec, iterations >>
tank_calls == << calls, last_call, flow_before, manifold, last_args,
                hp_call, solved >>
scheduler_vars == << heatpumps, sim_tank, sim_heatpump, series, schedule,
                     sim_locals, results, added_another_hour, exception, warned,
                     signal, trial_history >>

\* Scheduler.__init__ up to the first run_model: the tank, the heat pump and
\* the Simulator, which keeps a deep copy of the heat pump
NoManifoldCall == [T_in |-> 0, mass |-> 0, target |-> -1, before |-> ZeroQueue]

\* the baseline_scenario option: not given, heating in every hour, or never
BaselineSet == {None, [h \in Hours |-> 1], [h \in Hours |-> 0]}

ConstructFrom(start_temps, baselines) ==
    /\ \E start \in start_temps : tanks = ("tank" :> Tank(start))
    /\ baseline_scenario \in baselines
    /\ heatpumps = (deepcopy("heatpump") :> HeatPump) @@ ("heatpump" :> HeatPump)
    /\ sim_tank = "none"
    /\ sim_heatpump = deepcopy("heatpump")
    /\ forecast = << >> /\ demand = << >> /\ surplus = << >>
    /\ call_site = 0
    /\ index = 0 /\ substep = 0
    /\ total_elec_in = 0 /\ total_elec_imported = 0 /\ elec_this_timestep = 0
    /\ elec_used = 0 /\ elec_imported = 0 /\ failure_time = 0
    /\ added_another_hour = 0
    /\ exception = "none"
    /\ warned = FALSE
    /\ signal = "none"
    /\ raised = "none"
    /\ evaluated = << >>
    /\ hour_ends = << >> /\ hour_elec = << >>
    /\ iterations = 0
    /\ calls = 0 /\ last_call = "none" /\ flow_before = 0
    /\ manifold = NoManifoldCall
    /\ last_args = [Q_out |-> 0, mass_in |-> 0, T_in |-> 0, ret |-> 0,
                    before |-> tanks["tank"]]
    /\ hp_call = [op |-> "none", T_in |-> 0, mass |-> 0, ret |-> 0]
    /\ solved = [t \in {} |-> ZeroQueue]
    /\ trial_results = [t \in {} |-> 0]

\* before the first planning cycle: class attributes _forecast = None and
\* _schedule = []
FirstCycle == _forecast = None /\ schedule = << >>

\* before a later planning cycle: the forecast and the schedule of the cycle
\* before are held (the Simulator's private tank is replaced at the start of
\* every trial and is not followed between cycles)
LaterCycle ==
    /\ \E f \in ForecastTempSet : _forecast = [h \in Hours |-> f]
    /\ schedule \in [Hours -> {0, 1}]

Construct == ConstructFrom(StartTempSet, {None}) /\ FirstCycle

Init ==
    /\ ConstructFrom(StartTempSet, BaselineSet)
    /\ FirstCycle \/ LaterCycle
    /\ pc = "idle"

\* the arguments of the running trial that the scheduler varies: the schedule
\* and the caller's tank (the series are fixed within a cycle)
TrialInputs == [schedule |-> evaluated, tank |-> tanks["tank"]]

\* history: the outcome of the trial that ends, kept if it is the first with
\* these inputs
Recorded(outcome) ==
    IF TrialInputs \in DOMAIN trial_results
    THEN trial_results
    ELSE (TrialInputs :> outcome) @@ trial_results

\* run_model lines 203-243: forecast retrieved, series predicted, schedule reset
RunModel ==
    /\ pc = "idle"
    /\ \E f \in ForecastTempSet : forecast' = [h \in Hours |-> f]
    /\ _forecast' = forecast'
    /\ \E d \in DemandSet : demand' = [h \in Hours |-> d]
    /\ surplus' \in [Hours -> SurplusSet]
    /\ schedule' = [h \in Hours |-> 0]
    /\ iterations' = 0
    /\ pc' = "simulate"
    /\ UNCHANGED << tanks, heatpumps, sim_tank, sim_heatpump, sim_locals, results,
                    baseline_scenario,
                    added_another_hour, exception, warned, signal, raised,
                    evaluated, hour_ends, hour_elec, tank_calls >>

\* run_model lines 203-215 when get_forecast raises: the except clause, and
\* if it is passed the steps up to the first use of the local forecast
RunModelForecastFails ==
    /\ pc = "idle"
    /\ raised' = "ForecastException"
    /\ exception' = forecast_unavailable(_forecast)
    /\ pc' = "crashed"
    /\ IF forecast_unavailable(_forecast) = "UnboundLocalError"
       THEN LET shortened == 1..Len(drop_first(_forecast))
            IN  /\ _forecast' = drop_first(_forecast)
                /\ \E d \in DemandSet : demand' = [h \in shortened |-> d]
                /\ surplus' \in [shortened -> SurplusSet]
                /\ schedule' = [h \in shortened |-> 0]
       ELSE UNCHANGED << _forecast, demand, surplus, schedule >>
    /\ UNCHANGED << tanks, heatpumps, sim_tank, sim_heatpump, forecast,
                    baseline_scenario, sim_locals, results, added_another_hour,
                    warned, signal, trial_history, tank_calls >>

\* run_simulation lines 67-74, called from the while loop (line 253) or for
\* the baseline scenario (line 305)
RunSimulation ==
    /\ pc \in {"simulate", "baseline"}
    /\ call_site' = IF pc = "simulate" THEN 253 ELSE 305
    /\ LET ref == deepcopy("tank")
       IN  /\ tanks' = (ref :> [tanks["tank"] EXCEPT
                                  !.timestep = <<1, tank_timestep_multiple>>])
                         @@ tanks
           /\ sim_tank' = ref
    /\ heatpumps' = [heatpumps EXCEPT
                       ![sim_heatpump].timestep = <<1, tank_timestep_multiple>>]
    /\ total_elec_in' = fresh_total(total_elec_in)
    /\ total_elec_imported' = fresh_total(total_elec_imported)
    /\ index' = 0
    /\ pc' = "for"
    /\ raised' = "none"
    /\ evaluated' = IF pc = "simulate" THEN schedule ELSE baseline_scenario
    /\ hour_ends' = << >> /\ hour_elec' = << >>
    /\ iterations' = IF pc = "simulate" THEN iterations + 1 ELSE iterations
    /\ UNCHANGED << sim_heatpump, series, schedule, substep, elec_this_timestep,
                    results, added_another_hour, exception, warned, signal,
                    tank_calls >>

\* lines 77-88: the next row of the forecast
ForNextHour ==
    /\ pc = "for"
    /\ index < Horizon
    /\ index' = index + 1
    /\ tanks' = [tanks EXCEPT ![sim_tank].T_amb = forecast[index + 1]]
    /\ heatpumps' = [heatpumps EXCEPT ![sim_heatpump].T_amb = forecast[index + 1]]
    /\ elec_this_timestep' = 0
    /\ substep' = 0
    /\ pc' = "substep"
    /\ UNCHANGED << call_site, sim_tank, sim_heatpump, series, schedule, total_elec_in,
                    total_elec_imported, results, added_another_hour, exception,
                    warned, signal, raised, trial_history, tank_calls >>

\* line 176: the forecast is exhausted
ReturnSuccess ==
    /\ pc = "for"
    /\ index = Horizon
    /\ elec_used' = total_elec_in
    /\ elec_imported' = total_elec_imported
    /\ failure_time' = 0
    /\ trial_results' = Recorded([used |-> total_elec_in,
                                  imported |-> total_elec_imported,
                                  failure |-> 0, exc |-> "none"])
    /\ pc' = "returned"
    /\ UNCHANGED << tanks, heatpumps, sim_tank, sim_heatpump, series, schedule,
                    sim_locals, added_another_hour, exception, warned, signal,
                    raised, trial_history, tank_calls >>

\* lines 90-132: one sub-step; T is the solution of the tank's linear system
Substep ==
    /\ pc = "substep"
    /\ \E T \in SolveOutcomes :
         LET Q_out == demand[index] \div tank_timestep_multiple
             r == substep_body(tanks[sim_tank], heatpumps[sim_heatpump],
                               Q_out, evaluated[index], T)
             system == before_solve(tanks[sim_tank], heatpumps[sim_heatpump],
                                    Q_out, evaluated[index])
             h == except_handler(r.exc)
         IN  /\ (system \in DOMAIN solved) => T = solved[system]
             /\ solved' = IF r.exc = "none"
                           THEN (system :> T) @@ solved
                           ELSE solved
             /\ tanks' = [tanks EXCEPT ![sim_tank] = r.tank]
             /\ raised' = r.exc
             /\ IF r.exc = "none"
                THEN /\ elec_this_timestep' = elec_this_timestep + r.elec_in
                     /\ substep' = substep + 1
                     /\ pc' = IF substep + 1 = tank_timestep_multiple
                              THEN "hour_end" ELSE "substep"
                     /\ UNCHANGED << results, exception >>
                ELSE IF h = "return"
                THEN /\ elec_used' = elec_this_timestep
                     /\ elec_imported' = total_elec_imported
                     /\ failure_time' = index
                     /\ trial_results' =
                            Recorded([used |-> elec_this_timestep,
                                      imported |-> total_elec_imported,
                                      failure |-> index, exc |-> "none"])
                     /\ pc' = "returned"
                     /\ UNCHANGED << elec_this_timestep, substep, exception >>
                ELSE /\ exception' = h
                     /\ trial_results' =
                            Recorded([used |-> 0, imported |-> 0,
                                      failure |-> index, exc |-> h])
                     /\ pc' = "crashed"
                     /\ UNCHANGED << elec_this_timestep, substep, elec_used,
                                     elec_imported, failure_time >>
    /\ UNCHANGED << heatpumps, sim_tank, sim_heatpump, series, schedule, index,
                    call_site,
                    total_elec_in, total_elec_imported, added_another_hour,
                    warned, signal, trial_history, calls, last_call,
                    flow_before, manifold, last_args, hp_call >>

\* lines 134-173: the hour's accounts and the comfort check
HourEnd ==
    /\ pc = "hour_end"
    /\ total_elec_in' = total_elec_in + elec_this_timestep
    /\ total_elec_imported' =
           total_elec_imported
             + imported_this_timestep(surplus[index], elec_this_timestep)
    /\ hour_ends' = Append(hour_ends,
                           tanks[sim_tank].node_temps[outflow_node]
                               < minimum_temperature)
    /\ hour_elec' = Append(hour_elec, elec_this_timestep)
    /\ IF comfort_breached(tanks[sim_tank])
       THEN /\ elec_used' = total_elec_in'
            /\ elec_imported' = total_elec_imported'
            /\ failure_time' = index
            /\ trial_results' = Recorded([used |-> total_elec_in',
                                          imported |-> total_elec_imported',
                                          failure |-> index, exc |-> "none"])
            /\ pc' = "returned"
       ELSE /\ pc' = "for"
            /\ UNCHANGED results
    /\ UNCHANGED << tanks, heatpumps, sim_tank, sim_heatpump, series, schedule,
                    index, substep, elec_this_timestep, call_site,
                    added_another_hour,
                    exception, warned, signal, raised, evaluated, iterations,
                    tank_calls >>

\* lines 263-264: the trial succeeded
BreakOnSuccess ==
    /\ pc = "returned"
    /\ call_site = 253
    /\ failure_time = 0
    /\ pc' = "report"
    /\ UNCHANGED << tanks, heatpumps, sim_tank, sim_heatpump, series, schedule,
                    sim_locals, results, added_another_hour, exception, warned,
                    signal, raised, trial_history, tank_calls >>

\* lines 267-274 with _add_hour (lines 353-376)
AddHour ==
    /\ pc = "returned"
    /\ call_site = 253
    /\ failure_time # 0
    /\ \E r \in _add_hour(schedule, surplus, failure_time) :
         /\ schedule' = r.schedule
         /\ added_another_hour' = r.ret
         /\ pc' = IF r.ret = 0 THEN "report" ELSE "simulate"
    /\ UNCHANGED << tanks, heatpumps, sim_tank, sim_heatpump, series, sim_locals,
                    results, exception, warned, signal, raised, trial_history,
                    tank_calls >>

\* lines 277-334 without a baseline scenario: the warning, the report and
\* the heat pump signal; with one, lines 277-302 up to the baseline trial
Report ==
    /\ pc = "report"
    /\ warned' = (failure_time # 0)
    /\ IF baseline_scenario = None
       THEN /\ signal' = first_entry(schedule, evaluated)
            /\ pc' = "done"
       ELSE /\ pc' = "baseline"
            /\ UNCHANGED signal
    /\ UNCHANGED << tanks, heatpumps, sim_tank, sim_heatpump, series, schedule,
                    sim_locals, results, added_another_hour, exception, raised,
                    trial_history, tank_calls >>

\* lines 314-334: the baseline trial returned; its report and the signal
BaselineReport ==
    /\ pc = "returned"
    /\ call_site = 305
    /\ signal' = first_entry(schedule, evaluated)
    /\ pc' = "done"
    /\ UNCHANGED << tanks, heatpumps, sim_tank, sim_heatpump, series, schedule,
                    sim_locals, results, added_another_hour, exception, warned,
                    raised, trial_history, tank_calls >>

Next ==
    \/ RunModel
    \/ RunModelForecastFails
    \/ RunSimulation
    \/ ForNextHour
    \/ ReturnSuccess
    \/ Substep
    \/ HourEnd
    \/ BreakOnSuccess
    \/ AddHour
    \/ Report
    \/ BaselineReport

Spec == Init /\ [][Next]_vars

\* ------------------------------------------------ the tank used directly
\* energy drawn per call of draw_load (Wh)
TankDemandSet == {0, 18000}
\* mass (kg) and temperature handed to inject_heat
InjectMassSet == {200, 600}
InjectTempSet == {33, 35, 60}

RECURSIVE SumTo(_, _)
SumTo(q, n) == IF n < 0 THEN 0 ELSE q[n] + SumTo(q, n - 1)
\* total queued input mass minus total queued output mass
QueuedFlow(tank) ==
    SumTo(tank.input_masses, nodes - 1) - SumTo(tank.output_masses, nodes - 1)

InitTank == Construct /\ pc = "tank"

\* a caller's draw_load(Q_out); a TankWarning is caught by the caller
TankDrawLoad ==
    /\ pc = "tank"
    /\ calls < MaxCalls
    /\ \E Q_out \in TankDemandSet :
         LET r == draw_load(tanks["tank"], Q_out)
         IN  /\ tanks' = [tanks EXCEPT !["tank"] = r.tank]
             /\ raised' = r.exc
             /\ last_args' = [Q_out |-> Q_out, mass_in |-> 0, T_in |-> 0,
                              ret |-> r.ret, before |-> tanks["tank"]]
    /\ calls' = calls + 1
    /\ last_call' = "draw_load"
    /\ flow_before' = QueuedFlow(tanks["tank"])
    /\ UNCHANGED << pc, scheduler_vars, manifold, hp_call, solved >>

\* a caller's inject_heat(mass_in, T_in)
TankInjectHeat ==
    /\ pc = "tank"
    /\ calls < MaxCalls
    /\ \E mass_in \in InjectMassSet, T_in \in InjectTempSet :
         LET r == inject_heat(tanks["tank"], mass_in, T_in)
         IN  /\ tanks' = [tanks EXCEPT !["tank"] = r.tank]
             /\ raised' = r.exc
             /\ last_args' = [Q_out |-> 0, mass_in |-> mass_in, T_in |-> T_in,
                              ret |-> r.ret, before |-> tanks["tank"]]
    /\ calls' = calls + 1
    /\ last_call' = "inject_heat"
    /\ flow_before' = QueuedFlow(tanks["tank"])
    /\ UNCHANGED << pc, scheduler_vars, manifold, hp_call, solved >>

\* a caller's process_timestep()
TankProcessTimestep ==
    /\ pc = "tank"
    /\ \E T \in SolveOutcomes :
         LET r == process_timestep(tanks["tank"], T)
         IN  /\ tanks' = [tanks EXCEPT !["tank"] = r.tank]
             /\ raised' = r.exc
    /\ calls' = 0
    /\ last_call' = "process_timestep"
    /\ flow_before' = QueuedFlow(tanks["tank"])
    /\ UNCHANGED << pc, scheduler_vars, manifold, last_args, hp_call, solved >>

NextTank ==
    \/ TankDrawLoad
    \/ TankInjectHeat
    \/ TankProcessTimestep

SpecTank == InitTank /\ [][NextTank]_vars

\* ------------------------------------- the tank constructed at any temperature
\* start_node_temps of a tank below, at and above the load return temperature
ColdStartTempSet == {[n \in Nodes |-> t] : t \in {10, 20, 40}}

InitColdTank ==
    /\ ConstructFrom(ColdStartTempSet, {None})
    /\ FirstCycle
    /\ pc = "tank"

\* the calls of one timestep, before its process_timestep
NextColdTank ==
    \/ TankDrawLoad
    \/ TankInjectHeat

SpecColdTank == InitColdTank /\ [][NextColdTank]_vars

\* ------------------------------------------------ the manifold rule alone
\* node temperatures of the tanks _reinject is applied to
ManifoldNodeTemps == {30, 45, 60}
\* stratified tanks: no node hotter than the node above it
StratifiedTemps ==
    {t \in [Nodes -> ManifoldNodeTemps] :
        \A n \in Nodes : n > 0 => t[n - 1] <= t[n]}
\* temperature and mass (kg) of the fluid handed to _reinject
ManifoldTempSet == {20, 30, 50, 60}
ManifoldMassSet == {100, 146, 300}

InitManifold ==
    ConstructFrom(StratifiedTemps, {None}) /\ FirstCycle /\ pc = "manifold"

\* _reinject(T_in, mass) on the tank, queues as earlier calls left them
ManifoldReinject ==
    /\ pc = "manifold"
    /\ calls < MaxCalls
    /\ \E T_in \in ManifoldTempSet, mass \in ManifoldMassSet :
         LET r == _reinject(tanks["tank"], T_in, mass)
         IN  /\ tanks' = [tanks EXCEPT !["tank"] = r.tank]
             /\ raised' = r.exc
             /\ manifold' = [T_in |-> T_in, mass |-> mass,
                             target |-> _reinject_target(tanks["tank"], T_in),
                             before |-> tanks["tank"].input_masses]
    /\ calls' = calls + 1
    /\ last_call' = "_reinject"
    /\ flow_before' = QueuedFlow(tanks["tank"])
    /\ UNCHANGED << pc, scheduler_vars, last_args, hp_call, solved >>

NextManifold == ManifoldReinject

SpecManifold == InitManifold /\ [][NextManifold]_vars

\* --------------------------------------------- the heat pump used directly
\* ambient temperatures set on the heat pump (defrost mode at 2 and below)
AmbientSet == {2, 8}
\* timesteps set on the heat pump: one hour, one sub-step
TimestepSet == {<<1, 1>>, <<1, tank_timestep_multiple>>}
\* return temperatures and masses (kg) handed to the heat pump
ReturnTempSet == {20, 30, 45, 55, 59}
HeatMassSet == {100, 204, 408, 409, 2400}

InitHeatPump == Construct /\ pc = "heatpump"

\* the owner sets T_amb and timestep (simulator.py lines 72, 80)
HeatPumpConfigure ==
    /\ pc = "heatpump"
    /\ \E a \in AmbientSet, ts \in TimestepSet :
         heatpumps' = [heatpumps EXCEPT !["heatpump"].T_amb = a,
                                        !["heatpump"].timestep = ts]
    /\ hp_call' = [op |-> "none", T_in |-> 0, mass |-> 0, ret |-> 0]
    /\ UNCHANGED << tanks, sim_tank, sim_heatpump, series, schedule, pc,
                    sim_locals, results, added_another_hour, exception, warned,
                    signal, raised, trial_history, calls, last_call,
                    flow_before, manifold, last_args, solved >>

HeatPumpDeliverHeat ==
    /\ pc = "heatpump"
    /\ \E T_in \in ReturnTempSet, mass \in HeatMassSet :
         hp_call' = [op |-> "deliver_heat", T_in |-> T_in, mass |-> mass,
                     ret |-> deliver_heat(heatpumps["heatpump"], T_in, mass)]
    /\ UNCHANGED << tanks, pc, scheduler_vars, raised, calls, last_call,
                    flow_before, manifold, last_args, solved >>

HeatPumpHeatableMass ==
    /\ pc = "heatpump"
    /\ \E T_in \in ReturnTempSet :
         hp_call' = [op |-> "heatable_mass", T_in |-> T_in, mass |-> 0,
                     ret |-> heatable_mass(heatpumps["heatpump"], T_in)]
    /\ UNCHANGED << tanks, pc, scheduler_vars, raised, calls, last_call,
                    flow_before, manifold, last_args, solved >>

NextHeatPump ==
    \/ HeatPumpConfigure
    \/ HeatPumpDeliverHeat
    \/ HeatPumpHeatableMass

SpecHeatPump == InitHeatPump /\ [][NextHeatPump]_vars

\* ---------------------------------------------------------------- claims
ActiveHours(sched) == {h \in Hours : sched[h] = 1}

\* the state right after an _add_hour call that turned an hour on
JustAdded == pc = "simulate" /\ added_another_hour # 0

\* the schedule _add_hour was called with, seen from the state after it
BeforeAdd(h) == IF h = added_another_hour THEN 0 ELSE schedule[h]

\* C1: given a breach at F, _add_hour turns on the hour of greatest surplus
\* among the unscheduled hours strictly before F, and never F or a later hour.
C1_AddHourStrictlyBefore ==
    JustAdded =>
        /\ added_another_hour < failure_time
        /\ \A h \in Hours :
             (h < failure_time /\ BeforeAdd(h) = 0)
                 => surplus[h] <= surplus[added_another_hour]

\* C2: within a planning cycle no entry of the schedule goes from 1 to 0, a
\* change of the schedule turns exactly one entry from 0 to 1, and every
\* successful add-hour step raises the count of active hours by one.
C2_ScheduleOnlyGrows ==
    [][ (pc # "idle") =>
          /\ \A h \in Hours : schedule[h] = 1 => schedule'[h] = 1
          /\ (schedule' # schedule) =>
                 \E h \in Hours : /\ schedule[h] = 0
                                  /\ schedule' = [schedule EXCEPT ![h] = 1]
          /\ (pc = "returned" /\ pc' = "simulate") =>
                 Cardinality(ActiveHours(schedule'))
                     = Cardinality(ActiveHours(schedule)) + 1 ]_vars

C2_Witness == JustAdded /\ Cardinality(ActiveHours(schedule)) = Horizon

\* C3: the evaluate / add-hour loop ends after at most Horizon iterations.
C3_AtMostHorizonIterations == iterations <= Horizon

\* C4: when every hour before the breach is already scheduled, _add_hour adds
\* nothing and the scheduler stops with the comfort warning; the warning is
\* emitted in no other case.
C4_Exhaustion ==
    /\ JustAdded => \E h \in Hours : h < failure_time /\ BeforeAdd(h) = 0
    /\ (pc = "done" /\ call_site = 253) =>
          (warned <=> ( /\ failure_time # 0
                        /\ \A h \in Hours : h < failure_time => schedule[h] = 1 ))

\* C5: the scheduler stops at the first trial that completes the horizon
\* without a breach, adds no hour after it, and accepts the schedule that
\* trial ran with, which has no breach at any hour.
C5_Success ==
    /\ [][ (pc = "returned" /\ call_site = 253 /\ failure_time = 0)
              => (pc' = "report" /\ schedule' = schedule) ]_vars
    /\ []( (pc \in {"report", "done"} /\ call_site = 253 /\ failure_time = 0) =>
              /\ schedule = evaluated
              /\ Len(hour_ends) = Horizon
              /\ \A i \in 1..Len(hour_ends) : ~hour_ends[i] )

C5_Witness ==
    /\ pc = "done" /\ call_site = 253 /\ failure_time = 0
    /\ iterations > 1
    /\ Cardinality(ActiveHours(schedule)) > 0

\* C6: run_simulation never changes the caller's tank nor the scheduler's heat
\* pump, and every trial starts from the caller's tank snapshot.
C6_Isolation ==
    /\ [][ /\ tanks'["tank"] = tanks["tank"]
           /\ heatpumps'["heatpump"] = heatpumps["heatpump"] ]_vars
    /\ []( (pc = "for" /\ index = 0) =>
              /\ sim_tank # "tank"
              /\ sim_heatpump # "heatpump"
              /\ tanks[sim_tank] =
                     [tanks["tank"] EXCEPT
                         !.timestep = <<1, tank_timestep_multiple>>] )

C6_Witness ==
    /\ pc = "crashed"
    /\ raised = "TankWarning"
    /\ tanks[sim_tank].node_temps # tanks["tank"].node_temps
    /\ tanks[sim_tank].input_masses # tanks["tank"].input_masses

\* C7: a TankWarning raised in a sub-step makes run_simulation return normally
\* with the current hour as failure point; no exception leaves the call.
C7_TankWarningReturns ==
    (raised = "TankWarning") =>
        /\ exception = "none"
        /\ pc # "crashed"
        /\ failure_time = index

\* C8: run_simulation reports the first hour at whose end, after all its
\* sub-steps, the outflow node is below the minimum, simulates no hour after
\* it, and reports success only if no hour of the horizon ends below it.
C8_FirstBreach ==
    /\ (pc = "hour_end") => substep = tank_timestep_multiple
    /\ (pc = "returned" /\ raised = "none") =>
          /\ \A i \in 1..(Len(hour_ends) - 1) : ~hour_ends[i]
          /\ index = Len(hour_ends)
          /\ IF failure_time # 0
             THEN failure_time = Len(hour_ends) /\ hour_ends[failure_time]
             ELSE Len(hour_ends) = Horizon /\ ~hour_ends[Horizon]

C8_Witness ==
    /\ pc = "returned" /\ failure_time = Horizon
    /\ Cardinality(ActiveHours(schedule)) > 0

\* the import the claim states for an hour that used u with surplus s
ClaimedImport(s, u) ==
    IF 0 < s /\ s < u THEN u - s
    ELSE IF s >= u /\ s > 0 THEN 0
    ELSE u

RECURSIVE ClaimedImportTotal(_)
ClaimedImportTotal(n) ==
    IF n = 0 THEN 0
    ELSE ClaimedImportTotal(n - 1) + ClaimedImport(surplus[n], hour_elec[n])

\* C9: the imported total is the sum over the completed hours of
\* (used - surplus) when 0 < surplus < used, nothing when surplus >= used,
\* and the whole used amount when the surplus is zero or negative.
C9_ImportAccounting ==
    /\ (pc \in {"for", "substep", "hour_end", "returned"}) =>
          total_elec_imported = ClaimedImportTotal(Len(hour_elec))
    /\ (pc = "returned" /\ raised = "none") =>
          elec_imported = ClaimedImportTotal(Len(hour_elec))

C9_Witness ==
    /\ pc = "returned"
    /\ raised = "none"
    /\ \E i, j \in 1..Len(hour_elec) :
         /\ 0 < surplus[i] /\ surplus[i] < hour_elec[i]
         /\ surplus[j] <= 0 /\ hour_elec[j] > 0
    /\ elec_imported > 0

\* C10: process_timestep raises TankError whenever total queued input and
\* total queued output differ, in either direction.
C10_MassImbalanceBothWays ==
    (last_call = "process_timestep" /\ flow_before # 0) => raised = "TankError"

\* C11: whenever process_timestep is called, the total queued input mass
\* equals the total queued output mass, whatever draw_load and inject_heat
\* calls were made in the timestep.
C11_MassClosure ==
    (last_call = "process_timestep") => flow_before = 0

\* C12: in every tank state reached by draw_load, inject_heat and
\* process_timestep calls each node's queued input mass is at most the node
\* mass, and a call that returns normally has queued its whole mass: what
\* did not fit into one node went to another.
C12_NodeMassConservation ==
    /\ []( \A n \in Nodes : tanks["tank"].input_masses[n] <= _node_mass )
    /\ [][ (last_call' \in {"draw_load", "inject_heat"} /\ raised' = "none")
              => QueuedFlow(tanks'["tank"]) = QueuedFlow(tanks["tank"]) ]_vars

C12_Witness ==
    /\ pc = "tank"
    /\ last_call = "inject_heat" /\ raised = "none"
    /\ \E n, k \in Nodes :
         /\ n # k
         /\ tanks["tank"].input_masses[n] = _node_mass
         /\ tanks["tank"].input_masses[k] > 0
         /\ tanks["tank"].input_masses[k] < _node_mass

\* the node the manifold rule names for fluid at T in a stratified tank: the
\* highest node not hotter than T, the bottom node when every node is hotter
ManifoldRuleTarget(temps, T) ==
    IF \A n \in Nodes : temps[n] > T
    THEN 0
    ELSE CHOOSE n \in Nodes :
            /\ temps[n] <= T
            /\ \A k \in Nodes : k > n => temps[k] > T

\* C13: in a stratified tank _reinject starts at the top node when the fluid
\* is at least as hot as every node, at the bottom node when it is colder
\* than every node, and otherwise at the highest node not hotter than the
\* fluid, every node above the target being hotter than the fluid.
C13_ManifoldTarget ==
    (last_call = "_reinject") =>
        manifold.target =
            ManifoldRuleTarget(tanks["tank"].node_temps, manifold.T_in)

\* the differential between the inlet and the heater draw node at the last
\* inject_heat call
LastDifferential ==
    last_args.T_in - last_args.before.node_temps[heater_draw_node]

\* C14: draw_load(0), and inject_heat with an inlet less than 5 degrees above
\* the heater draw node, leave node temperatures and all queues as they were,
\* and inject_heat then returns 0; at exactly 5 degrees inject_heat does
\* draw and inject.
C14_NoOp ==
    /\ (last_call = "draw_load" /\ last_args.Q_out = 0) =>
          /\ tanks["tank"] = last_args.before
          /\ raised = "none"
    /\ (last_call = "inject_heat" /\ LastDifferential < 5) =>
          /\ tanks["tank"] = last_args.before
          /\ last_args.ret = 0
          /\ raised = "none"
    /\ (last_call = "inject_heat" /\ LastDifferential = 5) =>
          /\ tanks["tank"].output_masses[heater_draw_node] =
                 last_args.before.output_masses[heater_draw_node]
                     + last_args.mass_in
          /\ (raised = "none") =>
                 /\ last_args.ret > 0
                 /\ SumTo(tanks["tank"].input_masses, nodes - 1) =
                        SumTo(last_args.before.input_masses, nodes - 1)
                            + last_args.mass_in

C14_Witness ==
    /\ pc = "tank"
    /\ last_call = "inject_heat"
    /\ LastDifferential > 0 /\ LastDifferential < 5
    /\ tanks["tank"].input_masses # ZeroQueue
    /\ tanks["tank"].output_masses # ZeroQueue

\* (T_out - T_in) * mass * specific heat of the last deliver_heat call (Wh)
RequiredHeat ==
    ((T_out - hp_call.T_in) * hp_call.mass * fluid_specific_heat_num)
        \div fluid_specific_heat_den

\* nominal_power * timestep of the heat pump (Wh)
RatedHeat == TimesStep(nominal_power, heatpumps["heatpump"].timestep)

\* C15 as stated: whenever the required heat exceeds nominal_power * timestep,
\* deliver_heat returns nominal_power * timestep / COP.
C15_ClampWheneverExceeded ==
    (hp_call.op = "deliver_heat" /\ RequiredHeat > RatedHeat) =>
        hp_call.ret = (RatedHeat * 1000) \div COP(heatpumps["heatpump"])

\* C15 amended: when the required heat exceeds nominal_power * timestep by
\* more than the rounding tolerance of 0.01 kWh, deliver_heat returns
\* nominal_power * timestep / COP; otherwise it returns the required heat
\* / COP, which is computed from at most nominal_power * timestep + 0.01 kWh.
C15_ClampBeyondTolerance ==
    (hp_call.op = "deliver_heat") =>
        /\ (RequiredHeat - RatedHeat > clamp_tolerance) =>
               hp_call.ret = (RatedHeat * 1000) \div COP(heatpumps["heatpump"])
        /\ (RequiredHeat - RatedHeat <= clamp_tolerance) =>
               hp_call.ret = (RequiredHeat * 1000) \div COP(heatpumps["heatpump"])
        /\ hp_call.ret <= ((RatedHeat + clamp_tolerance) * 1000)
                              \div COP(heatpumps["heatpump"])

C15_Witness ==
    /\ pc = "heatpump"
    /\ hp_call.op = "deliver_heat"
    /\ RequiredHeat - RatedHeat > clamp_tolerance
    /\ heatpumps["heatpump"].timestep = <<1, tank_timestep_multiple>>
    /\ heatpumps["heatpump"].T_amb <= defrost_threshold

\* the flow cap of the heat pump: max_flow_rate (kg per minute) over one
\* timestep (hours)
FlowCap == TimesStep(max_flow_rate * 60, heatpumps["heatpump"].timestep)

\* heating mass m from the last call's T_in to T_out needs at most the rated
\* heat of one timestep
WithinRatedHeat(m) ==
    (T_out - hp_call.T_in) * m * fluid_specific_heat_num
        <= RatedHeat * fluid_specific_heat_den

\* C16: for T_in below the target, heatable_mass returns a mass that is at
\* most the flow cap and that the rated heat of one timestep can heat to the
\* target, and it is the smaller of the two limits: it is the flow cap, or
\* one kg more would need more than the rated heat.
C16_HeatableMass ==
    (hp_call.op = "heatable_mass" /\ hp_call.T_in < T_out) =>
        /\ hp_call.ret <= FlowCap
        /\ WithinRatedHeat(hp_call.ret)
        /\ \/ hp_call.ret = FlowCap
           \/ ~WithinRatedHeat(hp_call.ret + 1)

C16_Witness ==
    /\ pc = "heatpump"
    /\ hp_call.op = "heatable_mass"
    /\ hp_call.ret > 0 /\ hp_call.ret < FlowCap
    /\ heatpumps["heatpump"].timestep = <<1, tank_timestep_multiple>>

\* C17: the evaluation that follows an add-hour step ends normally, and it
\* either succeeds or reports a failure hour that is not earlier than the
\* failure hour of the evaluation before it (still held in failure_time
\* when the new one ends).
C17_Progress ==
    [][ (iterations > 1 /\ call_site = 253
            /\ pc \in {"substep", "hour_end", "for"}) =>
          /\ pc' # "crashed"
          /\ (pc' = "returned") =>
                 (failure_time' = 0 \/ failure_time' >= failure_time) ]_vars

\* C18: when the forecast cannot be retrieved and no forecast is held,
\* run_model fails with SchedulerError: the schedule stays as it was (none
\* is produced), no trial is run and no heat pump signal is sent.
C18_NoFirstForecast ==
    /\ [][ (pc = "idle" /\ raised' = "ForecastException" /\ _forecast = None)
              => /\ pc' = "crashed"
                 /\ exception' = "SchedulerError"
                 /\ schedule' = schedule /\ schedule' = << >>
                 /\ _forecast' = None ]_vars
    /\ []( (exception = "SchedulerError") =>
              /\ pc = "crashed"
              /\ signal = "none"
              /\ iterations = 0 )

C18_Witness ==
    /\ raised = "ForecastException"
    /\ _forecast = None
    /\ exception = "SchedulerError"
    /\ pc = "crashed"

\* C19: when the forecast cannot be retrieved and a forecast is held,
\* run_model does not fail: it drops the oldest hour of the held forecast
\* and goes on to the evaluation loop over the shortened horizon.
C19_ShortenedHorizon ==
    [][ (pc = "idle" /\ raised' = "ForecastException" /\ _forecast # None)
          => /\ exception' = "none"
             /\ pc' = "simulate"
             /\ _forecast' = Tail(_forecast) ]_vars

\* C20: the heat-now signal is sent once, at the end of the planning cycle,
\* and equals the first entry of the final schedule, after a success and
\* after an exhaustion, with or without a baseline trial in between.
C20_SignalFirstEntry ==
    /\ (pc = "done") => signal = schedule[1]
    /\ (pc # "done") => signal = "none"

C20_Witness ==
    /\ pc = "done"
    /\ call_site = 305
    /\ warned
    /\ schedule[1] = 1
    /\ baseline_scenario[1] = 0
    /\ signal = 1

\* the outcome of the trial that has just ended
TrialOutcome ==
    IF pc = "crashed"
    THEN [used |-> 0, imported |-> 0, failure |-> index, exc |-> exception]
    ELSE [used |-> elec_used, imported |-> elec_imported,
          failure |-> failure_time, exc |-> "none"]

\* a trial has just ended
TrialEnded == pc = "returned" \/ (pc = "crashed" /\ call_site # 0)

\* C21: a trial's result (used, imported, failure point, or the exception
\* that leaves it) is the result of the first trial run with the same
\* schedule and tank snapshot in the cycle, whatever trials the Simulator
\* ran in between.
C21_TrialsDeterministic ==
    TrialEnded =>
        /\ TrialInputs \in DOMAIN trial_results
        /\ trial_results[TrialInputs] = TrialOutcome

C21_Witness ==
    /\ pc = "returned"
    /\ call_site = 305
    /\ iterations > 1
    /\ evaluated = [h \in Hours |-> 0]
    /\ failure_time # 0
    /\ elec_used = 0
    /\ \E k \in DOMAIN trial_results : trial_results[k].used > 0

\* the place of node n in the order _reinject fills the nodes in: the target,
\* the nodes below it down to the bottom, then the nodes above it upwards
FillPlace(n, target) == IF n <= target THEN target - n ELSE n

\* the queued input of the tank after the last direct _reinject call
Queued == tanks["tank"].input_masses

\* C22: _reinject(M) raises exactly when the input already queued plus M
\* exceeds nodes * node mass, and then every node's queued input is the node
\* mass; otherwise it returns with the total queued input grown by M, no
\* node emptied, and a node receives mass only when every node before it in
\* the order target, below the target downwards, above the target upwards
\* is full.
C22_ReinjectCascade ==
    (last_call = "_reinject") =>
        /\ (raised = "TankWarning") <=>
               (SumTo(manifold.before, nodes - 1) + manifold.mass
                    > nodes * _node_mass)
        /\ (raised = "TankWarning") =>
               \A n \in Nodes : Queued[n] = _node_mass
        /\ (raised = "none") =>
               /\ SumTo(Queued, nodes - 1) =
                      SumTo(manifold.before, nodes - 1) + manifold.mass
               /\ \A n \in Nodes : Queued[n] >= manifold.before[n]
               /\ \A a, b \in Nodes :
                      ( /\ FillPlace(a, manifold.target)
                              < FillPlace(b, manifold.target)
                        /\ Queued[b] > manifold.before[b] )
                          => Queued[a] = _node_mass

C22_Witness ==
    /\ last_call = "_reinject"
    /\ raised = "none"
    /\ SumTo(manifold.before, nodes - 1) > 0
    /\ SumTo(Queued, nodes - 1) = nodes * _node_mass
    /\ manifold.target = 0

\* C23: a trial stopped by the tank-circulation fault reports as used energy
\* the electricity of all completed hours plus that charged so far in the
\* current hour.
C23_FaultReportsAccumulated ==
    (raised = "TankWarning" /\ pc \in {"returned", "crashed"}) =>
        /\ pc = "returned"
        /\ elec_used = total_elec_in + elec_this_timestep

\* electricity of the first n completed hours that were active in the trial
RECURSIVE ActiveElec(_)
ActiveElec(n) ==
    IF n = 0 THEN 0
    ELSE ActiveElec(n - 1) + (IF evaluated[n] = 1 THEN hour_elec[n] ELSE 0)

\* C24: in an hour whose schedule entry is 0 no sub-step draws from the
\* heater draw node (no inject_heat) and no electricity is charged; the used
\* electricity of a trial is the sum over its active hours, and a trial with
\* an all-zero schedule returns used = 0 and imported = 0.
C24_HeatsOnlyActiveHours ==
    /\ [][ (pc = "substep" /\ evaluated[index] = 0) =>
              /\ elec_this_timestep' = elec_this_timestep
              /\ tanks'[sim_tank].output_masses[heater_draw_node] = 0
              /\ \A k \in DOMAIN solved' \ DOMAIN solved :
                     k.output_masses[heater_draw_node] = 0 ]_vars
    /\ []( \A i \in 1..Len(hour_elec) :
              evaluated[i] = 0 => hour_elec[i] = 0 )
    /\ []( (pc = "returned" /\ raised = "none") =>
              /\ elec_used = ActiveElec(Len(hour_elec))
              /\ (evaluated = [h \in Hours |-> 0]) =>
                     (elec_used = 0 /\ elec_imported = 0) )

C24_Witness ==
    /\ pc = "returned" /\ raised = "none"
    /\ Len(hour_elec) = Horizon
    /\ \E i, j \in Hours : evaluated[i] = 0 /\ evaluated[j] = 1
    /\ elec_used > 0

\* C25: after every process_timestep that completes, the queued input
\* masses, input temperatures and output masses of every node are zero.
C25_QueuesClearedOnCompletion ==
    [][ (last_call' = "process_timestep" /\ raised' = "none") =>
          /\ tanks'["tank"].input_masses = ZeroQueue
          /\ tanks'["tank"].input_temps = ZeroQueue
          /\ tanks'["tank"].output_masses = ZeroQueue ]_vars

C25_Witness ==
    /\ pc = "tank"
    /\ last_call = "process_timestep" /\ raised = "none"
    /\ flow_before < 0
    /\ tanks["tank"].output_masses = ZeroQueue

\* C27: when process_timestep fails its mass-imbalance check, the node
\* temperatures and all queued inputs and outputs are exactly as they were
\* before the call: the check runs before the solve and changes nothing.
C27_ImbalanceLeavesTankUntouched ==
    [][ (last_call' = "process_timestep" /\ raised' = "TankError") =>
          tanks' = tanks ]_vars

C27_Witness ==
    /\ pc = "tank"
    /\ last_call = "process_timestep" /\ raised = "TankError"
    /\ flow_before > 0
    /\ tanks["tank"].input_masses # ZeroQueue

\* C26: a draw_load or inject_heat call that ends with TankWarning leaves
\* the queued input masses, input temperatures and output masses as they
\* were before the call, so total queued input still equals total queued
\* output afterwards.
C26_FaultLeavesQueuesUntouched ==
    [][ (last_call' \in {"draw_load", "inject_heat"}
           /\ raised' = "TankWarning") =>
          /\ tanks'["tank"].input_masses = tanks["tank"].input_masses
          /\ tanks'["tank"].input_temps = tanks["tank"].input_temps
          /\ tanks'["tank"].output_masses = tanks["tank"].output_masses
          /\ QueuedFlow(tanks'["tank"]) = QueuedFlow(tanks["tank"]) ]_vars

C29_ReportIsOfFinalSchedule ==
    /\ []( pc = "report" =>
              /\ schedule = evaluated
              /\ [schedule |-> schedule, tank |-> tanks["tank"]]
                     \in DOMAIN trial_results
              /\ LET trial == trial_results[[schedule |-> schedule,
                                             tank |-> tanks["tank"]]]
                 IN  /\ trial.exc = "none"
                     /\ trial.used = elec_used
                     /\ trial.imported = elec_imported
                     /\ trial.failure = failure_time )
    /\ [][ pc = "report" =>
              /\ schedule' = schedule
              /\ elec_used' = elec_used
              /\ elec_imported' = elec_imported ]_vars

C29_Witness ==
    /\ pc = "report"
    /\ failure_time # 0
    /\ added_another_hour = 0
    /\ iterations > 1
    /\ schedule # baseline_scenario
    /\ elec_used > 0

\* C30: for every positive demand Q_out and every tank state, also one whose
\* outflow node is at or below the load return temperature, draw_load leaves
\* every node's queued input and output mass non-negative, and the mass it
\* returns is greater than zero.
C30_DrawLoadQueuesPositiveMass ==
    (last_call = "draw_load" /\ last_args.Q_out > 0) =>
        /\ \A n \in Nodes :
              /\ tanks["tank"].input_masses[n] >= 0
              /\ tanks["tank"].output_masses[n] >= 0
        /\ raised = "none" => last_args.ret > 0

====
